---- MODULE Spec2Model ----
(***************************************************************************)
(* The connection bootstrap of src/src/connection.js: class Connection.     *)
(*                                                                         *)
(* A Connection is constructed with an options object and a completion     *)
(* callback.  It asks the rethinkdb driver to connect, then to list the    *)
(* databases, creates the target database when the list does not hold it,  *)
(* selects it on the connection and invokes the completion callback.       *)
(* Every driver callback goes through the adapter _fn.                     *)
(*                                                                         *)
(* The driver is the environment: it answers each request it was given     *)
(* by invoking the request's callback once, with an error or a result.     *)
(* In Spec, SpecAnyError and SpecLive it answers one instance in any way;  *)
(* in SpecSequential and SpecConcurrent it answers two instances from the  *)
(* catalog of one server.                                                  *)
(* Everything an instance does that the outside can see (driver requests,  *)
(* use(), invocations of the completion callback, an exception leaving a   *)
(* handler) and every driver answer is appended to the instance's log.     *)
(***************************************************************************)
EXTENDS Integers, Sequences, FiniteSets, TLC

VARIABLES
    _options,     \* this._options: the caller's options object (shared by reference)
    _connection,  \* this._connection
    _database,    \* this._database
    pending,      \* the driver request of the instance whose callback has not fired
    log,          \* per instance: the sequence of observable events so far
    catalog       \* the names of the databases that exist on the server

vars == <<_options, _connection, _database, pending, log, catalog>>

(***************************************************************************)
(* JavaScript values.  Strings stand for themselves; the other values are  *)
(* written as bracketed tokens, which no database name uses.               *)
(***************************************************************************)
Null == "<null>"
Undefined == "<undefined>"
False == "<false>"
Zero == "<0>"
EmptyString == ""

\* ToBoolean of the language: the falsy values are exactly these.
ToBoolean(v) == v \notin {Undefined, Null, False, Zero, EmptyString}

\* Variant: a ?? b, which keeps the empty string.
Or_nullish(a, b) == IF a \in {Undefined, Null} THEN b ELSE a
\* a || b
Or(a, b) == IF ToBoolean(a) THEN a ELSE b

\* The result slot of a dbList answer: an array of names, or undefined.
Array(items) == [defined |-> TRUE, items |-> items]
UndefinedArray == [defined |-> FALSE, items |-> <<>>]

\* Array.prototype.indexOf: strict equality, first match, zero-based, -1 if none.
RECURSIVE indexOfFrom(_, _, _)
indexOfFrom(items, x, k) ==
    IF k > Len(items) THEN -1
    ELSE IF items[k] = x THEN k - 1
    ELSE indexOfFrom(items, x, k + 1)

\* Variant: the search starts one element late.
indexOf_skipFirst(items, x) == indexOfFrom(items, x, 2)
indexOf(items, x) == indexOfFrom(items, x, 1)

(***************************************************************************)
(* The bounded universe of inputs.                                         *)
(***************************************************************************)
Instances == {1, 2}
MaxDbList == 2

Handles == {"conn1", "conn2"}
ErrorObjects == {"<Error E1>", "<Error E2>"}
FalsyErrors == {Zero, False, EmptyString}
DatabaseNames == {"deepstream", "testdb", "TestDb", "other"}
DbLists == UNION {[1..n -> DatabaseNames] : n \in 0..MaxDbList}
Created == "<created>"

\* The options objects a caller passes to the constructor.
OptionsIn ==
    [database : {Undefined, EmptyString, "deepstream", "testdb", "TestDb"},
     db : {Undefined, "other"},
     host : {"x"}]
NoOptions == [database |-> Undefined, db |-> Undefined, host |-> Undefined]

(***************************************************************************)
(* An instance as a record, and the events of its log.                     *)
(***************************************************************************)
This(self) ==
    [_options |-> _options[self], _connection |-> _connection[self],
     _database |-> _database[self], pending |-> pending[self], log |-> log[self]]

Commit(self, this) ==
    /\ _options' = [_options EXCEPT ![self] = this._options]
    /\ _connection' = [_connection EXCEPT ![self] = this._connection]
    /\ _database' = [_database EXCEPT ![self] = this._database]
    /\ pending' = [pending EXCEPT ![self] = this.pending]
    /\ log' = [log EXCEPT ![self] = this.log]

Emit(this, e) == [this EXCEPT !.log = Append(@, e)]
Issue(this, op, e) == [Emit(this, e) EXCEPT !.pending = op]
Throw(this, what) == Emit(this, [type |-> "throw", error |-> what])

\* this._callback( ...args )
_callback(this, args) == Emit(this, [type |-> "callback", args |-> args])

\* connection.use( name ): a method call on the stored connection.
use(this, name) ==
    IF this._connection \in Handles
    THEN Emit(this, [type |-> "use", name |-> name, conn |-> this._connection])
    ELSE Throw(this, "TypeError")

(***************************************************************************)
(* The methods of Connection, as functions from the instance to the        *)
(* instance after the call.                                                *)
(***************************************************************************)
get(this) == this._connection

\* Variant: this._callback() without the null.
_onDb_noArgs(this) ==
    LET used == use(this, this._database)
    IN  IF this._connection \in Handles THEN _callback(used, <<>>) ELSE used
\* Variant: the callback is invoked before the database is selected.
_onDb_callbackFirst(this) ==
    IF this._connection \in Handles
    THEN use(_callback(this, <<Null>>), this._database)
    ELSE use(this, this._database)
\* Variant: the database is selected and the callback forgotten.
_onDb_noCallback(this) == use(this, this._database)
_onDb(this) ==
    LET used == use(this, this._database)
    IN  IF this._connection \in Handles THEN _callback(used, <<Null>>) ELSE used

DbCreateRequest(this, name) ==
    Issue(this, "dbCreate",
          [type |-> "dbCreate", name |-> name, conn |-> this._connection])

\* Variant: the else is missing, _onDb runs while dbCreate is outstanding.
_onDbList_noElse(this, dbList) ==
    IF ~dbList.defined THEN Throw(this, "TypeError")
    ELSE IF indexOf(dbList.items, this._database) = -1
         THEN _onDb(DbCreateRequest(this, this._database))
         ELSE _onDb(this)
\* Variant: dbCreate is given the literal 'deepstream'.
_onDbList_createDefault(this, dbList) ==
    IF ~dbList.defined THEN Throw(this, "TypeError")
    ELSE IF indexOf(dbList.items, this._database) = -1
         THEN DbCreateRequest(this, "deepstream")
         ELSE _onDb(this)
\* Variant: no membership test, the database is always created.
_onDbList_always(this, dbList) ==
    IF ~dbList.defined THEN Throw(this, "TypeError")
    ELSE DbCreateRequest(this, this._database)
\* Variant: the database is selected without being created.
_onDbList_skipCreate(this, dbList) ==
    IF ~dbList.defined THEN Throw(this, "TypeError")
    ELSE _onDb(this)
_onDbList(this, dbList) ==
    IF ~dbList.defined THEN Throw(this, "TypeError")
    ELSE IF indexOf(dbList.items, this._database) = -1
         THEN DbCreateRequest(this, this._database)
         ELSE _onDb(this)

\* Variant: the connection is not stored.
_onConnection_noStore(this, connection) ==
    Issue(this, "dbList", [type |-> "dbList", conn |-> connection])
\* Variant: the database is selected as soon as the connection is there.
_onConnection_useEarly(this, connection) ==
    Issue(use([this EXCEPT !._connection = connection], this._database), "dbList",
          [type |-> "dbList", conn |-> connection])
_onConnection(this, connection) ==
    Issue([this EXCEPT !._connection = connection], "dbList",
          [type |-> "dbList", conn |-> connection])

\* fn.call( this, result ), fn being one of the three methods _fn is given.
Call(fn, this, result) ==
    CASE fn = "_onConnection" -> _onConnection(this, result)
      [] fn = "_onDbList" -> _onDbList(this, result)
      [] fn = "_onDb" -> _onDb(this)

\* The function _fn( fn ) returns, applied to ( error, result ).
\* Variant: no else, fn is called after the error was reported.
_fn_noElse(this, fn, error, result) ==
    IF ToBoolean(error)
    THEN Call(fn, _callback(this, <<error>>), result)
    ELSE Call(fn, this, result)
\* Variant: if( error !== null ).
_fn_nonNull(this, fn, error, result) ==
    IF error # Null THEN _callback(this, <<error>>) ELSE Call(fn, this, result)
\* Variant: the error is dropped.
_fn_swallow(this, fn, error, result) ==
    IF ToBoolean(error) THEN this ELSE Call(fn, this, result)
\* Variant: "already exists" is taken for success.
_fn_ignoreExists(this, fn, error, result) ==
    IF ToBoolean(error) /\ error # "<Error exists>"
    THEN _callback(this, <<error>>)
    ELSE Call(fn, this, result)
_fn(this, fn, error, result) ==
    IF ToBoolean(error) THEN _callback(this, <<error>>) ELSE Call(fn, this, result)

\* Variant: the defaulted name is written back to options.database too.
constructor_writeDatabase(this, options) ==
    LET name == Or(options.database, "deepstream")
        opts == [options EXCEPT !.database = name, !.db = name]
    IN  Issue([this EXCEPT !._options = opts, !._connection = Null, !._database = name],
              "connect", [type |-> "connect", options |-> opts])
constructor(this, options) ==
    LET name == Or(options.database, "deepstream")
        opts == [options EXCEPT !.db = name]
    IN  Issue([this EXCEPT !._options = opts, !._connection = Null, !._database = name],
              "connect", [type |-> "connect", options |-> opts])

(***************************************************************************)
(* The driver's answers.  An answer fills the error slot or the result     *)
(* slot of the callback; the slot it does not fill is null or undefined.   *)
(***************************************************************************)
Outcomes(Errors, Results, NoResult) ==
    {[error |-> Null, result |-> r] : r \in Results}
        \cup {[error |-> e, result |-> NoResult] : e \in Errors}

\* The driver invokes the callback of the pending request op with outcome o.
Answer(this, op, o) ==
    [Emit(this, [type |-> "reply", op |-> op, error |-> o.error, result |-> o.result])
        EXCEPT !.pending = "none"]

(***************************************************************************)
(* Actions.                                                                *)
(***************************************************************************)
NoInstance ==
    /\ _options = [i \in Instances |-> NoOptions]
    /\ _connection = [i \in Instances |-> Undefined]
    /\ _database = [i \in Instances |-> Undefined]
    /\ pending = [i \in Instances |-> "none"]
    /\ log = [i \in Instances |-> <<>>]

Init == NoInstance /\ catalog = {}

\* An instance exists; its chain has come to an end.
Constructed(i) == log[i] # <<>>
Finished(i) == Constructed(i) /\ pending[i] = "none"

\* new Connection( options, callback )
New(self) ==
    /\ log[self] = <<>>
    /\ \E options \in OptionsIn :
          Commit(self, constructor(Emit(This(self), [type |-> "new", options |-> options]),
                                   options))
    /\ UNCHANGED catalog

\* The callback given to rethinkdb.connect fires.
ConnectCallback(self, Errors) ==
    /\ pending[self] = "connect"
    /\ \E o \in Outcomes(Errors, Handles, Undefined) :
          Commit(self, _fn(Answer(This(self), "connect", o), "_onConnection",
                           o.error, o.result))
    /\ UNCHANGED catalog

\* The callback given to dbList().run fires.
DbListCallback(self, Errors) ==
    /\ pending[self] = "dbList"
    /\ \E o \in Outcomes(Errors, {Array(l) : l \in DbLists}, UndefinedArray) :
          Commit(self, _fn(Answer(This(self), "dbList", o), "_onDbList",
                           o.error, o.result))
    /\ UNCHANGED catalog

\* The callback given to dbCreate( name ).run fires.
\* Variant: dbCreate().run is given this._onDb itself, not _fn( this._onDb ).
DbCreateCallback_unwrapped(self, Errors) ==
    /\ pending[self] = "dbCreate"
    /\ \E o \in Outcomes(Errors, {Created}, Undefined) :
          Commit(self, _onDb(Answer(This(self), "dbCreate", o)))
    /\ UNCHANGED catalog
DbCreateCallback(self, Errors) ==
    /\ pending[self] = "dbCreate"
    /\ \E o \in Outcomes(Errors, {Created}, Undefined) :
          Commit(self, _fn(Answer(This(self), "dbCreate", o), "_onDb",
                           o.error, o.result))
    /\ UNCHANGED catalog

\* One instance, a driver that reports failures as Error objects.
Next ==
    \E self \in {1} :
        \/ New(self)
        \/ ConnectCallback(self, ErrorObjects)
        \/ DbListCallback(self, ErrorObjects)
        \/ DbCreateCallback(self, ErrorObjects)

Spec == Init /\ [][Next]_vars

\* One instance, the error slot holding any value, the falsy ones included.
NextAnyError ==
    \E self \in {1} :
        \/ New(self)
        \/ ConnectCallback(self, ErrorObjects \cup FalsyErrors)
        \/ DbListCallback(self, ErrorObjects \cup FalsyErrors)
        \/ DbCreateCallback(self, ErrorObjects \cup FalsyErrors)

SpecAnyError == Init /\ [][NextAnyError]_vars

\* One instance, and a driver that invokes the callback of every request it
\* was given: a pending callback does not stay pending for ever.
SpecLive ==
    /\ Init
    /\ [][Next]_vars
    /\ \A self \in {1} :
          /\ WF_vars(ConnectCallback(self, ErrorObjects))
          /\ WF_vars(DbListCallback(self, ErrorObjects))
          /\ WF_vars(DbCreateCallback(self, ErrorObjects))

(***************************************************************************)
(* A server behind the driver.  It keeps the catalog of database names,    *)
(* never drops a database, lists the catalog in any order, and rejects     *)
(* the creation of a database that exists.  Every instance talks to the    *)
(* same server.                                                            *)
(***************************************************************************)
ServerNames == {"testdb", "other"}
AlreadyExists == "<Error exists>"
ServerErrors == {"<Error E1>"}

\* Every array that lists the names of S once each.
Listings(S) ==
    {l \in [1..Cardinality(S) -> S] : \A n \in S : \E k \in DOMAIN l : l[k] = n}

\* The name the pending dbCreate request of an instance was given.
Requested(self) == log[self][Len(log[self])].name

InitServer == NoInstance /\ catalog \in SUBSET ServerNames

\* The server answers dbList: the callback given to dbList().run fires.
ServerDbList(self) ==
    /\ pending[self] = "dbList"
    /\ \E o \in Outcomes(ServerErrors, {Array(l) : l \in Listings(catalog)},
                         UndefinedArray) :
          Commit(self, _fn(Answer(This(self), "dbList", o), "_onDbList",
                           o.error, o.result))
    /\ UNCHANGED catalog

\* The server answers dbCreate: the callback given to dbCreate( name ).run fires.
ServerDbCreate(self) ==
    /\ pending[self] = "dbCreate"
    /\ \E o \in IF Requested(self) \in catalog
                THEN Outcomes({AlreadyExists}, {}, Undefined)
                ELSE Outcomes(ServerErrors, {Created}, Undefined) :
          /\ Commit(self, _fn(Answer(This(self), "dbCreate", o), "_onDb",
                              o.error, o.result))
          /\ catalog' = IF o.error = Null THEN catalog \cup {Requested(self)}
                        ELSE catalog

\* Two instances against one server, one bootstrap after the other.
NewAfter(self) ==
    /\ \A other \in Instances : other < self => Finished(other)
    /\ New(self)

NextSequential ==
    \E self \in Instances :
        \/ NewAfter(self)
        \/ ConnectCallback(self, ServerErrors)
        \/ ServerDbList(self)
        \/ ServerDbCreate(self)

SpecSequential == InitServer /\ [][NextSequential]_vars

\* Two instances against one server, their steps interleaved in any way.
NextConcurrent ==
    \E self \in Instances :
        \/ New(self)
        \/ ConnectCallback(self, ServerErrors)
        \/ ServerDbList(self)
        \/ ServerDbCreate(self)

SpecConcurrent == InitServer /\ [][NextConcurrent]_vars

(***************************************************************************)
(* Reading the log.                                                        *)
(***************************************************************************)
Events(i, t) == SelectSeq(log[i], LAMBDA e : e.type = t)
Callbacks(i) == Events(i, "callback")
IsReply(e, op) == e.type = "reply" /\ e.op = op
Failed(e) == e.error # Null
CallbackWith(args) == [type |-> "callback", args |-> args]
\* The error argument of an invocation of the completion callback.
ErrorOf(c) == IF c.args = <<>> THEN Undefined ELSE c.args[1]
\* The second argument of an invocation of the completion callback.
HandleOf(c) == IF Len(c.args) < 2 THEN Undefined ELSE c.args[2]
\* The handle the driver's connect step delivered, null if none (yet).
Delivered(i) ==
    IF \E k \in DOMAIN log[i] : IsReply(log[i][k], "connect") /\ ~Failed(log[i][k])
    THEN (CHOOSE e \in {log[i][k] : k \in DOMAIN log[i]} :
              IsReply(e, "connect") /\ ~Failed(e)).result
    ELSE Null
Listed(e, name) == e.result.defined /\ \E j \in DOMAIN e.result.items : e.result.items[j] = name
Request(t, name, conn) == [type |-> t, name |-> name, conn |-> conn]

(***************************************************************************)
(* C1: once the chain has finished (the instance is constructed and no     *)
(* driver request is outstanding) the completion callback has been invoked *)
(* exactly once, and at no time has it been invoked twice.                 *)
(***************************************************************************)
C1_ExactlyOnce ==
    \A i \in Instances :
        /\ Len(Callbacks(i)) <= 1
        /\ Finished(i) => Len(Callbacks(i)) = 1

C1_Witness ==
    \E i \in Instances :
        /\ Finished(i)
        /\ Len(Callbacks(i)) = 1
        /\ \E k \in DOMAIN log[i] : IsReply(log[i][k], "dbCreate")

(***************************************************************************)
(* C2 as claimed: every invocation of the completion callback is           *)
(* (error, undefined) with a non-null error, or (null, handle) with the    *)
(* handle the connect step delivered as its second argument.               *)
(***************************************************************************)
C2_Original ==
    \A i \in Instances : \A k \in DOMAIN Callbacks(i) :
        LET c == Callbacks(i)[k]
        IN  \/ ErrorOf(c) \notin {Null, Undefined} /\ HandleOf(c) = Undefined
            \/ ErrorOf(c) = Null /\ HandleOf(c) \in Handles /\ HandleOf(c) = Delivered(i)

(***************************************************************************)
(* C2 amended: every invocation of the completion callback is (error)      *)
(* with the non-null error some driver step reported, on a failure path,   *)
(* or (null) alone on the success path; on success the callback gets no    *)
(* second argument, and the handle the connect step delivered is what      *)
(* get() returns.                                                          *)
(***************************************************************************)
C2_Shape ==
    \A i \in Instances : \A k \in DOMAIN Callbacks(i) :
        LET c == Callbacks(i)[k]
            failures == {j \in DOMAIN log[i] : log[i][j].type = "reply" /\ Failed(log[i][j])}
        IN  \/ /\ Len(c.args) = 1
               /\ c.args[1] \notin {Null, Undefined}
               /\ \E j \in failures : log[i][j].error = c.args[1]
            \/ /\ c.args = <<Null>>
               /\ failures = {}
               /\ get(This(i)) \in Handles
               /\ get(This(i)) = Delivered(i)

C2_Witness ==
    \E i \in Instances :
        /\ Callbacks(i) = <<CallbackWith(<<Null>>)>>
        /\ get(This(i)) = "conn2"

(***************************************************************************)
(* C3: if the connect step reports an error E, the completion callback is  *)
(* invoked exactly once, with E; get() returns null; and no dbList,        *)
(* dbCreate or use call is issued.                                         *)
(***************************************************************************)
C3_ConnectError ==
    \A i \in Instances : \A k \in DOMAIN log[i] :
        IsReply(log[i][k], "connect") /\ Failed(log[i][k]) =>
            /\ Callbacks(i) = <<CallbackWith(<<log[i][k].error>>)>>
            /\ get(This(i)) = Null
            /\ Events(i, "dbList") = <<>>
            /\ Events(i, "dbCreate") = <<>>
            /\ Events(i, "use") = <<>>
            /\ pending[i] = "none"

C3_Witness ==
    \E i \in Instances : \E k \in DOMAIN log[i] :
        /\ IsReply(log[i][k], "connect")
        /\ log[i][k].error = "<Error E1>"
        /\ Callbacks(i) = <<CallbackWith(<<"<Error E1>">>)>>

(***************************************************************************)
(* C4: if connect succeeds and the dbList step reports an error E, the     *)
(* completion callback is invoked exactly once, with E, and neither a      *)
(* dbCreate request nor a use call is issued.                              *)
(***************************************************************************)
C4_DbListError ==
    \A i \in Instances : \A k \in DOMAIN log[i] :
        IsReply(log[i][k], "dbList") /\ Failed(log[i][k]) /\ Delivered(i) \in Handles =>
            /\ Callbacks(i) = <<CallbackWith(<<log[i][k].error>>)>>
            /\ Events(i, "dbCreate") = <<>>
            /\ Events(i, "use") = <<>>
            /\ pending[i] = "none"

C4_Witness ==
    \E i \in Instances : \E k \in DOMAIN log[i] :
        /\ IsReply(log[i][k], "dbList")
        /\ log[i][k].error = "<Error E2>"
        /\ Delivered(i) \in Handles
        /\ Callbacks(i) = <<CallbackWith(<<"<Error E2>">>)>>

(***************************************************************************)
(* C5: if the list dbList returns holds an element equal to the target     *)
(* name (compared exactly, case included), dbCreate is never issued, use   *)
(* is called once, with the target on the handle, and the completion       *)
(* callback is invoked after it, once, with a null error.                  *)
(***************************************************************************)
C5_Present ==
    \A i \in Instances : \A k \in DOMAIN log[i] :
        /\ IsReply(log[i][k], "dbList")
        /\ ~Failed(log[i][k])
        /\ Delivered(i) \in Handles
        /\ Listed(log[i][k], _database[i])
        => /\ Events(i, "dbCreate") = <<>>
           /\ Events(i, "use") = <<Request("use", _database[i], Delivered(i))>>
           /\ Len(log[i]) = k + 2
           /\ log[i][k + 1].type = "use"
           /\ log[i][k + 2].type = "callback"
           /\ ErrorOf(log[i][k + 2]) = Null

C5_Witness ==
    \E i \in Instances : \E k \in DOMAIN log[i] :
        /\ IsReply(log[i][k], "dbList")
        /\ ~Failed(log[i][k])
        /\ _database[i] = "testdb"
        /\ log[i][k].result.items = <<"testdb", "TestDb">>
        /\ Events(i, "use") = <<Request("use", "testdb", Delivered(i))>>
        /\ Len(Callbacks(i)) = 1

(***************************************************************************)
(* C6: if the list dbList returns holds no element equal to the target     *)
(* name, dbCreate is issued exactly once, with the target name and on the  *)
(* handle connect delivered; if it succeeds, use(target) is called and     *)
(* then the completion callback is invoked with a null error: create,      *)
(* select, callback, in that order.                                        *)
(***************************************************************************)
C6_Absent ==
    \A i \in Instances : \A k \in DOMAIN log[i] :
        /\ IsReply(log[i][k], "dbList")
        /\ ~Failed(log[i][k])
        /\ Delivered(i) \in Handles
        /\ ~Listed(log[i][k], _database[i])
        => /\ Events(i, "dbCreate") = <<Request("dbCreate", _database[i], Delivered(i))>>
           /\ log[i][k + 1].type = "dbCreate"
           /\ \A r \in DOMAIN log[i] :
                 IsReply(log[i][r], "dbCreate") /\ ~Failed(log[i][r]) =>
                    /\ r = k + 2
                    /\ Len(log[i]) = r + 2
                    /\ log[i][r + 1] = Request("use", _database[i], Delivered(i))
                    /\ log[i][r + 2].type = "callback"
                    /\ ErrorOf(log[i][r + 2]) = Null
                    /\ Len(Callbacks(i)) = 1

C6_Witness ==
    \E i \in Instances : \E k \in DOMAIN log[i] :
        /\ IsReply(log[i][k], "dbList")
        /\ _database[i] = "testdb"
        /\ log[i][k].result.items = <<"TestDb", "other">>
        /\ Len(log[i]) = k + 4
        /\ log[i][k + 1] = Request("dbCreate", "testdb", Delivered(i))
        /\ log[i][k + 3] = Request("use", "testdb", Delivered(i))
        /\ log[i][k + 4].type = "callback"

(***************************************************************************)
(* C7: if the target name is absent from the listing and the dbCreate      *)
(* step reports an error E, the completion callback is invoked exactly     *)
(* once, with E, use is never called, and the callback is never invoked    *)
(* with a null error.                                                      *)
(***************************************************************************)
C7_DbCreateError ==
    \A i \in Instances : \A k \in DOMAIN log[i] :
        IsReply(log[i][k], "dbCreate") /\ Failed(log[i][k]) /\ Delivered(i) \in Handles =>
            /\ Callbacks(i) = <<CallbackWith(<<log[i][k].error>>)>>
            /\ Events(i, "use") = <<>>
            /\ \A c \in DOMAIN Callbacks(i) : ErrorOf(Callbacks(i)[c]) # Null
            /\ pending[i] = "none"

C7_Witness ==
    \E i \in Instances : \E k \in DOMAIN log[i] :
        /\ IsReply(log[i][k], "dbCreate")
        /\ log[i][k].error = "<Error E1>"
        /\ \E l \in DOMAIN log[i] :
              IsReply(log[i][l], "dbList") /\ ~Listed(log[i][l], _database[i])
        /\ Callbacks(i) = <<CallbackWith(<<"<Error E1>">>)>>

(***************************************************************************)
(* C8 as claimed: get() returns a non-null handle only if the completion   *)
(* callback has been invoked with a null error.                            *)
(***************************************************************************)
C8_Original ==
    \A i \in Instances :
        Constructed(i) /\ get(This(i)) # Null =>
            \E c \in DOMAIN Callbacks(i) : ErrorOf(Callbacks(i)[c]) = Null

(***************************************************************************)
(* C8 amended: get() returns a non-null handle only if the connect step    *)
(* has succeeded.  It returns null until then and after a connect failure; *)
(* from the moment connect's callback fires with success it returns the    *)
(* delivered handle, also while dbList or dbCreate is outstanding and      *)
(* after a dbList or dbCreate failure: the handle is kept, not discarded.  *)
(***************************************************************************)
C8_HandleSinceConnect ==
    \A i \in Instances :
        Constructed(i) => get(This(i)) = Delivered(i)

C8_Witness ==
    \E i \in Instances : \E k \in DOMAIN log[i] :
        /\ IsReply(log[i][k], "dbList")
        /\ Failed(log[i][k])
        /\ get(This(i)) \in Handles

(***************************************************************************)
(* C9 as claimed: the target name is 'deepstream' when options.database is *)
(* unset and is options.database for every value that is set, the empty    *)
(* string included.                                                        *)
(***************************************************************************)
C9_Original ==
    \A i \in Instances :
        Constructed(i) =>
            LET given == log[i][1].options.database
            IN  _database[i] = IF given = Undefined THEN "deepstream" ELSE given

(***************************************************************************)
(* C9 amended: the target name is 'deepstream' when options.database is    *)
(* unset or the empty string, and is options.database for every non-empty  *)
(* string; that name is the one tested for membership in the list, the one *)
(* given to dbCreate and the one given to use.                             *)
(***************************************************************************)
C9_TargetName ==
    \A i \in Instances :
        Constructed(i) =>
            LET given == log[i][1].options.database
                target == IF given \in {Undefined, EmptyString} THEN "deepstream" ELSE given
            IN  /\ _database[i] = target
                /\ \A k \in DOMAIN log[i] :
                      log[i][k].type \in {"dbCreate", "use"} => log[i][k].name = target
                /\ \A k \in DOMAIN log[i] :
                      IsReply(log[i][k], "dbList") /\ ~Failed(log[i][k]) =>
                         (Events(i, "dbCreate") = <<>> <=> Listed(log[i][k], target))

C9_Witness ==
    \E i \in Instances :
        /\ Constructed(i)
        /\ log[i][1].options.database = EmptyString
        /\ Events(i, "dbCreate") = <<Request("dbCreate", "deepstream", Delivered(i))>>
        /\ Events(i, "use") = <<Request("use", "deepstream", Delivered(i))>>

Steps == <<"connect", "dbList", "dbCreate", "use", "callback">>
Rank(t) == CHOOSE r \in DOMAIN Steps : Steps[r] = t
IsStep(e) == \E r \in DOMAIN Steps : Steps[r] = e.type
IsRequest(e) == e.type \in {"connect", "dbList", "dbCreate"}
\* The driver requests among the first k events whose callback has not fired.
Outstanding(i, k) ==
    Cardinality({j \in 1..k : IsRequest(log[i][j])})
        - Cardinality({j \in 1..k : log[i][j].type = "reply"})

C11_StrictOrder ==
    \A i \in Instances : \A k \in DOMAIN log[i] :
        LET e == log[i][k]
            before == log[i][k - 1]
        IN  /\ e.type = "connect" => k = 2 /\ before.type = "new"
            /\ e.type = "dbList" => IsReply(before, "connect") /\ ~Failed(before)
            /\ e.type = "dbCreate" => IsReply(before, "dbList") /\ ~Failed(before)
            /\ e.type = "use" =>
                  \/ IsReply(before, "dbList") /\ ~Failed(before)
                        /\ Listed(before, _database[i])
                  \/ IsReply(before, "dbCreate") /\ ~Failed(before)
                        /\ \E l \in 1..k :
                              IsReply(log[i][l], "dbList") /\ ~Listed(log[i][l], _database[i])
            /\ e.type = "callback" /\ ErrorOf(e) = Null => before.type = "use"
            /\ Outstanding(i, k) \in {0, 1}
            /\ \A j \in 1..k :
                  IsStep(e) /\ IsStep(log[i][j]) /\ j < k =>
                     Rank(log[i][j].type) < Rank(e.type)

C11_Witness ==
    \E i \in Instances :
        /\ Len(log[i]) = 9
        /\ [k \in 1..9 |-> log[i][k].type] =
              <<"new", "connect", "reply", "dbList", "reply", "dbCreate", "reply",
                "use", "callback">>

(***************************************************************************)
(* C13: no step is retried.  Each of connect, dbList, dbCreate and use is  *)
(* issued at most once by an instance, and after a step failed the         *)
(* instance issues no driver call of any kind.                             *)
(***************************************************************************)
C13_NoRetry ==
    \A i \in Instances :
        /\ \A t \in {"connect", "dbList", "dbCreate", "use"} : Len(Events(i, t)) <= 1
        /\ \A k \in DOMAIN log[i] :
              log[i][k].type = "reply" /\ Failed(log[i][k]) =>
                 \A j \in DOMAIN log[i] :
                    j > k => log[i][j].type \notin {"connect", "dbList", "dbCreate", "use"}

C13_Witness ==
    \E i \in Instances : \E k \in DOMAIN log[i] :
        /\ IsReply(log[i][k], "dbCreate")
        /\ Failed(log[i][k])
        /\ Len(log[i]) = k + 1
        /\ \A t \in {"connect", "dbList", "dbCreate"} : Len(Events(i, t)) = 1
        /\ Events(i, "use") = <<>>

(***************************************************************************)
(* C17: construction changes the caller's options object in one way only:  *)
(* it sets options.db to the effective target name, before connect is      *)
(* issued.  options.database and every other field keep their values, and  *)
(* the object is not written at any later step.                            *)
(***************************************************************************)
C17_OptionsFrame ==
    \A i \in Instances :
        Constructed(i) =>
            LET given == log[i][1].options
                target == IF given.database \in {Undefined, EmptyString}
                          THEN "deepstream" ELSE given.database
                after == [given EXCEPT !.db = target]
            IN  /\ log[i][2] = [type |-> "connect", options |-> after]
                /\ _options[i] = after
                /\ _options[i].database = given.database
                /\ _options[i].host = given.host

C17_Witness ==
    \E i \in Instances :
        /\ Finished(i)
        /\ log[i][1].options = [database |-> Undefined, db |-> "other", host |-> "x"]
        /\ _options[i] = [database |-> Undefined, db |-> "deepstream", host |-> "x"]
        /\ Len(Callbacks(i)) = 1

(***************************************************************************)
(* C12: if every driver request that is issued has its callback invoked,   *)
(* a constructed instance eventually invokes the completion callback, and  *)
(* once it has, it issues nothing further.  Conversely the completion      *)
(* callback is invoked only in the step in which a driver callback fires:  *)
(* while a request is outstanding it has not been invoked, and nothing     *)
(* else (no timeout) invokes it.                                           *)
(***************************************************************************)
C12_Terminates ==
    /\ \A i \in Instances :
          Constructed(i) ~> (Len(Callbacks(i)) = 1 /\ pending[i] = "none")
    /\ [][\A i \in Instances : Callbacks(i) # <<>> => log'[i] = log[i]]_vars
    /\ [](\A i \in Instances :
             Constructed(i) /\ Outstanding(i, Len(log[i])) > 0 => Callbacks(i) = <<>>)
    /\ [][\A i \in Instances :
             Callbacks(i)' # Callbacks(i) =>
                /\ pending[i] # "none"
                /\ Len(log'[i]) > Len(log[i]) + 1
                /\ log'[i][Len(log[i]) + 1].type = "reply"]_vars

C12_Witness ==
    \E i \in Instances : \E k \in DOMAIN log[i] :
        /\ IsReply(log[i][k], "dbCreate")
        /\ log[i][k].error = "<Error E2>"
        /\ Len(Callbacks(i)) = 1
        /\ pending[i] = "none"

(***************************************************************************)
(* Reading the logs of instances that share a server.                      *)
(***************************************************************************)
Succeeded(i) == \E c \in DOMAIN Callbacks(i) : ErrorOf(Callbacks(i)[c]) = Null
Answered(i, op) ==
    \E k \in DOMAIN log[i] : IsReply(log[i][k], op) /\ ~Failed(log[i][k])
\* The dbCreate requests for name that the server carried out.
CreatedBy(name) ==
    UNION {{<<i, k>> : k \in {k \in DOMAIN log[i] :
                                /\ IsReply(log[i][k], "dbCreate")
                                /\ ~Failed(log[i][k])
                                /\ log[i][k - 1].name = name}} : i \in Instances}

(***************************************************************************)
(* C14: against a server that drops nothing, once a bootstrap for name N   *)
(* has completed successfully, a bootstrap for the same N that is run      *)
(* after it issues no dbCreate, leaves the catalog as it is, and completes *)
(* successfully when its connect and its dbList succeed.                   *)
(***************************************************************************)
C14_Idempotent ==
    /\ [](\A i, j \in Instances :
             i < j /\ Succeeded(i) /\ Constructed(j) /\ _database[i] = _database[j] =>
                /\ Events(j, "dbCreate") = <<>>
                /\ Answered(j, "connect") /\ Answered(j, "dbList") => Succeeded(j))
    /\ [][\A i, j \in Instances :
             i < j /\ Succeeded(i) /\ Constructed(j)' /\ _database[i] = _database'[j] =>
                catalog' = catalog]_vars

C14_Witness ==
    /\ Succeeded(1)
    /\ Succeeded(2)
    /\ _database[1] = "deepstream"
    /\ _database[2] = "deepstream"
    /\ Events(1, "dbCreate") # <<>>
    /\ Events(2, "dbCreate") = <<>>
    /\ catalog = {"deepstream", "other"}

(***************************************************************************)
(* C15: two instances bootstrap at the same time for the same absent name  *)
(* N, against a server that rejects creating a database that exists.  Both *)
(* may see N absent and both issue dbCreate(N).  In every interleaving     *)
(* each instance invokes its completion callback exactly once, at most one *)
(* dbCreate(N) succeeds, and an instance whose dbCreate is rejected        *)
(* reports that error and neither selects N nor reports success, although  *)
(* N is in the catalog by then.                                            *)
(***************************************************************************)
C15_CreateRace ==
    /\ \A i \in Instances :
          /\ Len(Callbacks(i)) <= 1
          /\ Finished(i) => Len(Callbacks(i)) = 1
    /\ \A name \in DatabaseNames : Cardinality(CreatedBy(name)) <= 1
    /\ \A i \in Instances : \A k \in DOMAIN log[i] :
          IsReply(log[i][k], "dbCreate") /\ Failed(log[i][k]) =>
             /\ Callbacks(i) = <<CallbackWith(<<log[i][k].error>>)>>
             /\ Events(i, "use") = <<>>
             /\ ~Succeeded(i)
             /\ log[i][k].error = AlreadyExists => log[i][k - 1].name \in catalog

C15_Witness ==
    \E i, j \in Instances :
        /\ i # j
        /\ Events(i, "dbCreate") = <<Request("dbCreate", "testdb", Delivered(i))>>
        /\ Events(j, "dbCreate") = <<Request("dbCreate", "testdb", Delivered(j))>>
        /\ Succeeded(i)
        /\ Callbacks(j) = <<CallbackWith(<<AlreadyExists>>)>>
        /\ Events(j, "use") = <<>>
        /\ "testdb" \in catalog

(***************************************************************************)
(* C16: whenever the completion callback has been invoked with a null      *)
(* error, the target name is in the catalog (nothing is dropped), the last *)
(* thing the instance did before the callback was use(target) on the       *)
(* handle connect delivered, and get() returns that handle.                *)
(***************************************************************************)
C16_Ready ==
    \A i \in Instances : \A k \in DOMAIN log[i] :
        log[i][k].type = "callback" /\ ErrorOf(log[i][k]) = Null =>
            /\ _database[i] \in catalog
            /\ log[i][k - 1] = Request("use", _database[i], Delivered(i))
            /\ Events(i, "use") = <<log[i][k - 1]>>
            /\ Delivered(i) \in Handles
            /\ get(This(i)) = Delivered(i)

C16_Witness ==
    \E i \in Instances :
        /\ Succeeded(i)
        /\ _database[i] = "TestDb"
        /\ catalog = {"TestDb", "testdb"}
        /\ get(This(i)) = "conn1"
        /\ Events(i, "use") = <<Request("use", "TestDb", "conn1")>>

====
